---- MODULE Spec2Model ----
(***************************************************************************)
(* A model of the AI music generator front end.                            *)
(*                                                                         *)
(*   Spec        the MusicDisplay component (src/components/               *)
(*               MusicDisplay.tsx): width measurement, the render /        *)
(*               init / prime / controls pipeline of its useEffect, the    *)
(*               React renders that apply queued state (the width at sync  *)
(*               priority, alone or together with a queued renderError),   *)
(*               MIDI and SVG export.                                      *)
(*   ParseSpec   parseAbcResponse (src/unnamed/part_000), applied to       *)
(*               bounded raw texts and then to its own output.             *)
(*   AppSpec     the App component and the PromptForm (src/unnamed/        *)
(*               part_000, src/components/PromptForm.tsx): handleGenerate, *)
(*               generateMusic and the controls that start them, together  *)
(*               with the pipeline of the MusicDisplay that App mounts, in *)
(*               a window that is not resized (staff width 0 throughout)   *)
(*               and without exports.                                      *)
(*               AppFairSpec adds that pending promises settle and that    *)
(*               React renders queued state.                               *)
(*                                                                         *)
(* Texts are sequences of characters, each a one-character string or, for *)
(* a character a TLA+ string cannot hold, a token such as "U+2028".        *)
(***************************************************************************)
EXTENDS Integers, Sequences, FiniteSets, TLC

VARIABLES
    \* ---- MusicDisplay ----
    abcjsLoaded,        \* typeof window.ABCJS !== 'undefined'
    title,              \* musicData.title
    clientWidth,        \* width the sheet-music container has (or would have)
    currentStaffWidth,  \* React state, value of the committed render
    nextStaffWidth,     \* value queued by setCurrentStaffWidth
    renderError,        \* React state, value of the committed render
    nextRenderError,    \* value queued by setRenderError
    visualRef,          \* [current |-> is the ref attached to the div, html |-> 0 or the run whose score the div holds]
    audioRef,           \* innerHTML of #audio-controls: 0 or the run whose controls it holds
    layoutDone,         \* the useLayoutEffect has run (resize listener registered)
    effectPending,      \* a commit changed the useEffect dependencies
    runs,               \* one record per pass of the useEffect beyond its guard
    exports,            \* how many handleDownloadMidi calls wait at each of their awaits
    output,             \* what an export button last produced: an alert() or a file
    \* ---- parseAbcResponse ----
    raw,                \* the text given to parseAbcResponse
    pass,               \* 0: not parsed, 1: parsed, 2: output parsed again
    first,              \* result of the first application
    second,             \* result of applying it to first.abcNotation
    \* ---- App ----
    prompt,             \* React state of App
    isLoading,          \* React state of App, value of the committed render
    generatedMusic,     \* React state of App, value of the committed render
    error,              \* React state of App, value of the committed render
    queued,             \* the App state after the setState calls not yet rendered
    requests            \* one record per handleGenerate call that reached generateMusic

displayVars == <<abcjsLoaded, title, clientWidth, currentStaffWidth, nextStaffWidth,
                 renderError, nextRenderError, visualRef, audioRef, layoutDone,
                 effectPending, runs, exports, output>>
parseVars == <<raw, pass, first, second>>
appVars == <<prompt, isLoading, generatedMusic, error, queued, requests>>
vars == <<displayVars, parseVars, appVars>>

----------------------------------------------------------------------------
(* Bounds of the model *)

\* pipeline runs of one mounted MusicDisplay
MaxRuns == 2
\* container widths the window can take are StaffMargin .. StaffMargin+MaxWidth
MaxWidth == 1
\* handleDownloadMidi calls in flight at the same time
MaxExports == 2

----------------------------------------------------------------------------
(* MusicDisplay *)

\* the padding subtracted in calculateStaffWidth
StaffMargin == 40

ClientWidths == StaffMargin .. (StaffMargin + MaxWidth)

NoError == [kind |-> "null", text |-> ""]
VisualErrorMessage == [kind |-> "visual", text |-> "Failed to render sheet music visually."]

\* what a rejected promise or a throw carries: err.message and String(err)
Errs == { [message |-> "blocked", str |-> "Error: blocked"],
          [message |-> "", str |-> "NotAllowedError"] }

\* a variant that forgets String(err)
ErrTextMessageOnly(err) == err.message

\* err.message || String(err)
ErrText(err) == IF err.message # "" THEN err.message ELSE err.str

AudioErrorMessage(err) == [kind |-> "audio", text |-> ErrText(err)]
DisplayErrorMessage(err) == [kind |-> "display", text |-> ErrText(err)]

\* what ABCJS.renderAbc can do: return nothing, an empty list, a list of tunes, or throw
VisualResults == {"absent", "empty", "ok", "throw"}
\* what the calls between a successful render and the promise chain can do: all
\* return, new ABCJS.synth.CreateSynth() throws, new AudioContext() throws, or
\* midiBuffer.init(...) throws before it returns a promise
Constructions == {"ok", "synthThrows", "contextThrows", "initThrows"}
\* how prime() and the renderMidi call that follows it can end
PrimeOutcomes == {"resolve", "reject", "renderMidiThrows"}

\* a variant that accepts every result
VisualFailedNever(visualObjs) == FALSE

\* a variant that forgets the length test
VisualFailedAbsentOnly(visualObjs) == visualObjs = "absent"

\* !visualObjs || visualObjs.length === 0
VisualFailed(visualObjs) == visualObjs = "absent" \/ visualObjs = "empty"

\* a variant that forgets the padding
calculateStaffWidthNoMargin(w) == w

\* clientWidth - 40
calculateStaffWidth(w) == w - StaffMargin

\* the guard of the useEffect: ABCJS loaded, notation present, both refs attached
\* (the notation is never empty: parseAbcResponse returns at least its headers,
\* and #audio-controls is rendered unconditionally)
EffectGuard == abcjsLoaded /\ visualRef.current

\* a pipeline run: what renderAbc was given and returned, whether CreateSynth and
\* AudioContext were constructed, where its promise chain stands, and how often
\* audioContext.close() was called
Run(w, v, s, c, p) ==
    [staffwidth |-> w, visualObjs |-> v, synth |-> s, audioContext |-> c, pc |-> p,
     closeCalls |-> 0]

NoExports == [init |-> 0, midi |-> 0]
NoDownload == [base |-> "", ext |-> ""]
NoOutput == [alert |-> "", download |-> NoDownload]
\* alert(text)
Alert(text) == [alert |-> text, download |-> NoDownload]
\* a.download = name; a.click()
Download(name) == [alert |-> "", download |-> name]

NoResult == [title |-> <<>>, abcNotation |-> <<>>]
ParseIdle == raw = <<>> /\ pass = 0 /\ first = NoResult /\ second = NoResult

DisplayInit ==
    /\ abcjsLoaded \in BOOLEAN
    /\ title = "Song"
    /\ clientWidth \in ClientWidths
    /\ currentStaffWidth = 0
    /\ nextStaffWidth = 0
    /\ renderError = NoError
    /\ nextRenderError = NoError
    /\ visualRef = [current |-> TRUE, html |-> 0]
    /\ audioRef = 0
    /\ layoutDone = FALSE
    /\ effectPending = TRUE
    /\ runs = <<>>
    /\ exports = NoExports
    /\ output = NoOutput

\* App renders MusicDisplay: generatedMusic && !isLoading
DisplayMounted == generatedMusic # NoResult /\ ~isLoading

\* setCurrentStaffWidth queued a width that is not rendered yet. The update has
\* sync priority, so React renders it before the task that queued it ends: no
\* event and no promise callback runs in between
SyncWorkPending == nextStaffWidth # currentStaffWidth

\* useLayoutEffect: measure once, then listen for resize
LayoutEffect ==
    /\ DisplayMounted
    /\ ~layoutDone
    /\ layoutDone' = TRUE
    /\ nextStaffWidth' = IF visualRef.current THEN calculateStaffWidth(clientWidth)
                         ELSE nextStaffWidth
    /\ UNCHANGED <<abcjsLoaded, title, clientWidth, currentStaffWidth, renderError,
                   nextRenderError, visualRef, audioRef, effectPending, runs, exports,
                   output>>
    /\ UNCHANGED <<parseVars, appVars>>

\* the window is resized; the listener calculateStaffWidth runs. (React runs the
\* effects still pending from the last commit before it renders the update, and
\* the useEffect neither reads the container width nor changes the ref, so the
\* resize is taken after them)
WindowResize(w) ==
    /\ DisplayMounted
    /\ layoutDone /\ ~effectPending
    /\ ~SyncWorkPending
    /\ Len(runs) < MaxRuns
    /\ w # clientWidth
    /\ clientWidth' = w
    /\ nextStaffWidth' = IF visualRef.current THEN calculateStaffWidth(w)
                         ELSE nextStaffWidth
    /\ UNCHANGED <<abcjsLoaded, title, currentStaffWidth, renderError, nextRenderError,
                   visualRef, audioRef, layoutDone, effectPending, runs, exports,
                   output>>
    /\ UNCHANGED <<parseVars, appVars>>

\* a variant in which the alert is another element than #sheet-music, so that
\* React removes the div together with the score drawn into it
RenderedReplaced(err) ==
    IF err # NoError THEN [current |-> FALSE, html |-> 0]
    ELSE IF visualRef.current THEN visualRef
    ELSE [current |-> TRUE, html |-> 0]

\* what the render does to the div below the buttons. Both branches of
\* renderError ? alert : sheet-music are a div without key in the same place, so
\* React keeps the DOM node: visualRef is attached to it only while renderError
\* is null, the message paragraphs are appended or removed, and what abcjs drew
\* into the node stays
Rendered(err) == [current |-> err = NoError, html |-> visualRef.html]

\* React renders the width alone. setCurrentStaffWidth is called in the layout
\* phase of a commit or in a resize event, where React gives an update sync
\* priority; setRenderError is called in the useEffect or in a promise callback,
\* where it gets default priority. A root that renders one priority at a time
\* (createRoot of React 18) takes the width first and leaves the queued
\* renderError for a later render: #sheet-music and its ref stay, and the useEffect
\* is scheduled with the new width
CommitWidth ==
    /\ DisplayMounted
    /\ layoutDone
    /\ ~effectPending
    /\ nextStaffWidth # currentStaffWidth
    /\ nextRenderError # renderError
    /\ currentStaffWidth' = nextStaffWidth
    /\ effectPending' = TRUE
    /\ UNCHANGED <<abcjsLoaded, title, clientWidth, nextStaffWidth, renderError,
                   nextRenderError, visualRef, audioRef, layoutDone, runs, exports,
                   output>>
    /\ UNCHANGED <<parseVars, appVars>>

\* React renders and commits everything queued (after the effects of the previous
\* commit have run): the only render when one state is queued, and the render of
\* a root that takes sync and default priority in one pass (a legacy root, or a
\* React release that renders them together) when both are. The useEffect is
\* scheduled when currentStaffWidth changed
Commit ==
    /\ DisplayMounted
    /\ layoutDone
    /\ ~effectPending
    /\ nextStaffWidth # currentStaffWidth \/ nextRenderError # renderError
    /\ currentStaffWidth' = nextStaffWidth
    /\ renderError' = nextRenderError
    /\ visualRef' = Rendered(nextRenderError)
    /\ effectPending' = (nextStaffWidth # currentStaffWidth)
    /\ UNCHANGED <<abcjsLoaded, title, clientWidth, nextStaffWidth, nextRenderError,
                   audioRef, layoutDone, runs, exports, output>>
    /\ UNCHANGED <<parseVars, appVars>>

\* the useEffect fails its guard and returns
EffectSkip ==
    /\ DisplayMounted
    /\ layoutDone /\ effectPending
    /\ ~EffectGuard
    /\ effectPending' = FALSE
    /\ UNCHANGED <<abcjsLoaded, title, clientWidth, currentStaffWidth, nextStaffWidth,
                   renderError, nextRenderError, visualRef, audioRef, layoutDone, runs,
                   exports, output>>
    /\ UNCHANGED <<parseVars, appVars>>

\* the useEffect passes its guard: clear, renderAbc, then CreateSynth, AudioContext,
\* init; whatever is thrown on the way is caught and becomes renderError
EffectRun(visualObjs, built, err) ==
    /\ DisplayMounted
    /\ layoutDone /\ effectPending
    /\ EffectGuard
    /\ Len(runs) < MaxRuns
    /\ effectPending' = FALSE
    /\ audioRef' = 0
    /\ IF visualObjs = "throw"
       THEN /\ visualRef' = [visualRef EXCEPT !.html = 0]
            /\ nextRenderError' = DisplayErrorMessage(err)
            /\ runs' = Append(runs, Run(currentStaffWidth, visualObjs, FALSE, "none", "threw"))
       ELSE IF VisualFailed(visualObjs)
       THEN /\ visualRef' = [visualRef EXCEPT !.html = 0]
            /\ nextRenderError' = VisualErrorMessage
            /\ runs' = Append(runs, Run(currentStaffWidth, visualObjs, FALSE, "none", "visualError"))
       ELSE IF built # "ok"
       THEN /\ visualRef' = [visualRef EXCEPT !.html = Len(runs) + 1]
            /\ nextRenderError' = DisplayErrorMessage(err)
            /\ runs' = Append(runs, Run(currentStaffWidth, visualObjs,
                                        built \in {"contextThrows", "initThrows"},
                                        IF built = "initThrows" THEN "open" ELSE "none",
                                        "threw"))
       ELSE /\ visualRef' = [visualRef EXCEPT !.html = Len(runs) + 1]
            /\ nextRenderError' = NoError
            /\ runs' = Append(runs, Run(currentStaffWidth, visualObjs, TRUE, "open", "init"))
    /\ UNCHANGED <<abcjsLoaded, title, clientWidth, currentStaffWidth, nextStaffWidth,
                   renderError, layoutDone, exports, output>>
    /\ UNCHANGED <<parseVars, appVars>>

\* the .catch of the init / prime chain of run r
CatchAudio(r, err) ==
    /\ nextRenderError' = AudioErrorMessage(err)
    /\ runs' = [runs EXCEPT ![r] =
                  [@ EXCEPT !.pc = "audioError",
                            !.audioContext = "closed",
                            !.closeCalls = IF runs[r].audioContext # "closed" THEN @ + 1 ELSE @]]
    /\ UNCHANGED audioRef

\* midiBuffer.init settles for run r
InitSettle(r, ok, err) ==
    /\ DisplayMounted
    /\ ~SyncWorkPending
    /\ r \in 1..Len(runs)
    /\ runs[r].pc = "init"
    /\ IF ok
       THEN /\ runs' = [runs EXCEPT ![r].pc = "prime"]
            /\ UNCHANGED <<nextRenderError, audioRef>>
       ELSE CatchAudio(r, err)
    /\ UNCHANGED <<abcjsLoaded, title, clientWidth, currentStaffWidth, nextStaffWidth,
                   renderError, visualRef, layoutDone, effectPending, exports, output>>
    /\ UNCHANGED <<parseVars, appVars>>

\* midiBuffer.prime settles for run r; on success renderMidi fills #audio-controls,
\* and a throw of renderMidi lands in the same .catch as a rejection
PrimeSettle(r, outcome, err) ==
    /\ DisplayMounted
    /\ ~SyncWorkPending
    /\ r \in 1..Len(runs)
    /\ runs[r].pc = "prime"
    /\ IF outcome = "resolve"
       THEN /\ runs' = [runs EXCEPT ![r].pc = "ready"]
            /\ audioRef' = r
            /\ UNCHANGED nextRenderError
       ELSE CatchAudio(r, err)
    /\ UNCHANGED <<abcjsLoaded, title, clientWidth, currentStaffWidth, nextStaffWidth,
                   renderError, visualRef, layoutDone, effectPending, exports, output>>
    /\ UNCHANGED <<parseVars, appVars>>

\* the newest pipeline run has rendered its controls
PipelineReady == Len(runs) > 0 /\ runs[Len(runs)].pc = "ready"

\* musicData.title || 'untitled'
FileBase == IF title # "" THEN title ELSE "untitled"
\* `${musicData.title || 'untitled'}.mid`
MidiFileName == [base |-> FileBase, ext |-> ".mid"]
\* `${musicData.title || 'untitled'}.svg`
SvgFileName == [base |-> FileBase, ext |-> ".svg"]

\* handleDownloadMidi up to its first await; the button is never disabled, so
\* calls can overlap
ExportClick(visualObjs) ==
    /\ DisplayMounted
    /\ IF ~abcjsLoaded
       THEN /\ output' = Alert("ABCJS library is not loaded. Cannot export MIDI.")
            /\ exports' = exports
       ELSE IF ~visualRef.current \/ visualObjs = "throw" \/ VisualFailed(visualObjs)
       THEN /\ output' = Alert("Failed to export MIDI. Please try again.")
            /\ exports' = exports
       ELSE /\ exports.init + exports.midi < MaxExports
            /\ output' = output
            /\ exports' = [exports EXCEPT !.init = @ + 1]
    /\ UNCHANGED <<abcjsLoaded, title, clientWidth, currentStaffWidth, nextStaffWidth,
                   renderError, nextRenderError, visualRef, audioRef, layoutDone,
                   effectPending, runs>>
    /\ UNCHANGED <<parseVars, appVars>>

\* await midiBuffer.init(...) of one export settles
ExportInitSettle(ok) ==
    /\ exports.init > 0
    /\ ~SyncWorkPending
    /\ IF ok
       THEN /\ exports' = [init |-> exports.init - 1, midi |-> exports.midi + 1]
            /\ output' = output
       ELSE /\ exports' = [exports EXCEPT !.init = @ - 1]
            /\ output' = Alert("Failed to export MIDI. Please try again.")
    /\ UNCHANGED <<abcjsLoaded, title, clientWidth, currentStaffWidth, nextStaffWidth,
                   renderError, nextRenderError, visualRef, audioRef, layoutDone,
                   effectPending, runs>>
    /\ UNCHANGED <<parseVars, appVars>>

\* await midiBuffer.getMidiFile() of one export settles; on success the file is
\* downloaded
ExportMidiSettle(ok) ==
    /\ exports.midi > 0
    /\ ~SyncWorkPending
    /\ exports' = [exports EXCEPT !.midi = @ - 1]
    /\ output' = IF ok THEN Download(MidiFileName)
                  ELSE Alert("Failed to export MIDI. Please try again.")
    /\ UNCHANGED <<abcjsLoaded, title, clientWidth, currentStaffWidth, nextStaffWidth,
                   renderError, nextRenderError, visualRef, audioRef, layoutDone,
                   effectPending, runs>>
    /\ UNCHANGED <<parseVars, appVars>>

\* handleDownloadSvg: the svg is the score a run drew into #sheet-music
handleDownloadSvg ==
    /\ DisplayMounted
    /\ output' = IF ~visualRef.current THEN Alert("No sheet music to export as SVG.")
                  ELSE IF visualRef.html # 0 THEN Download(SvgFileName)
                  ELSE Alert("Could not find SVG content to export.")
    /\ UNCHANGED <<abcjsLoaded, title, clientWidth, currentStaffWidth, nextStaffWidth,
                   renderError, nextRenderError, visualRef, audioRef, layoutDone,
                   effectPending, runs, exports>>
    /\ UNCHANGED <<parseVars, appVars>>

Next ==
    \/ LayoutEffect
    \/ \E w \in ClientWidths : WindowResize(w)
    \/ CommitWidth
    \/ Commit
    \/ EffectSkip
    \/ \E v \in VisualResults, b \in Constructions, err \in Errs : EffectRun(v, b, err)
    \/ \E r \in 1..MaxRuns, ok \in BOOLEAN, err \in Errs : InitSettle(r, ok, err)
    \/ \E r \in 1..MaxRuns, o \in PrimeOutcomes, err \in Errs : PrimeSettle(r, o, err)
    \/ \E v \in VisualResults : ExportClick(v)
    \/ \E ok \in BOOLEAN : ExportInitSettle(ok)
    \/ \E ok \in BOOLEAN : ExportMidiSettle(ok)
    \/ handleDownloadSvg

----------------------------------------------------------------------------
(* parseAbcResponse *)

\* lines a raw text is built from
MaxLines == 3

\* characters that a TLA+ string cannot hold are written by their code point
LineSeparator == "U+2028"
ParagraphSeparator == "U+2029"
\* the line terminators: what . does not match, and where ^ and $ match under
\* the m flag
LineBreak == {"\n", "\r", LineSeparator, ParagraphSeparator}
\* \s of a regular expression, and what String.prototype.trim removes: the
\* white space characters and the line terminators
Whitespace ==
    {" ", "\t", "U+000B", "U+000C", "U+00A0", "U+1680",
     "U+2000", "U+2001", "U+2002", "U+2003", "U+2004", "U+2005", "U+2006",
     "U+2007", "U+2008", "U+2009", "U+200A", "U+202F", "U+205F", "U+3000",
     "U+FEFF"} \cup LineBreak
\* [a-gA-G]
PitchLetters == {"a", "b", "c", "d", "e", "f", "g", "A", "B", "C", "D", "E", "F", "G"}

\* the backquote character (a TLA+ string cannot hold one)
Backquote == "BQ"

Fence == <<Backquote, Backquote, Backquote>>
FenceAbc == <<Backquote, Backquote, Backquote, "a", "b", "c">>
DefaultTitle == <<"U", "n", "t", "i", "t", "l", "e", "d", " ", "C", "o", "m", "p", "o", "s", "i", "t", "i", "o", "n">>
DefaultTitleLine == <<"T", ":", "U", "n", "t", "i", "t", "l", "e", "d", " ", "C", "o", "m", "p", "o", "s", "i", "t", "i", "o", "n">>
IndexLine == <<"X", ":", "1">>
DefaultKeyLine == <<"K", ":", "C">>
DefaultMeterLine == <<"M", ":", "4", "/", "4">>
DefaultTempoLine == <<"Q", ":", "1", "/", "4", "=", "1", "2", "0">>
Placeholder == <<"\n", "C", " ", "|">>

Min(S) == CHOOSE x \in S : \A y \in S : x <= y
Max(S) == CHOOSE x \in S : \A y \in S : x >= y

StartsWith(s, p) == Len(s) >= Len(p) /\ SubSeq(s, 1, Len(p)) = p
From(s, i) == SubSeq(s, i, Len(s))

\* abcText.replace(/<fence>(abc)?|<fence>/g, '') with <fence> three backquotes:
\* left to right, each match removed
RECURSIVE StripFences(_)
StripFences(s) ==
    IF s = <<>> THEN <<>>
    ELSE IF StartsWith(s, FenceAbc) THEN StripFences(From(s, Len(FenceAbc) + 1))
    ELSE IF StartsWith(s, Fence) THEN StripFences(From(s, Len(Fence) + 1))
    ELSE <<Head(s)>> \o StripFences(Tail(s))

\* String.prototype.trim
Trim(s) ==
    LET keep == {i \in 1..Len(s) : s[i] \notin Whitespace}
    IN  IF keep = {} THEN <<>> ELSE SubSeq(s, Min(keep), Max(keep))

\* ^ under the m flag matches before position i
AtLineStart(s, i) == i = 1 \/ s[i - 1] \in LineBreak
\* $ under the m flag matches before position i
AtLineEnd(s, i) == i = Len(s) + 1 \/ s[i] \in LineBreak
\* where a greedy \s* that starts at i stops
SkipSpace(s, i) == Min({j \in i..(Len(s) + 1) : j = Len(s) + 1 \/ s[j] \notin Whitespace})
\* where a greedy .* that starts at i stops
SkipLine(s, i) == Min({j \in i..(Len(s) + 1) : j = Len(s) + 1 \/ s[j] \in LineBreak})
\* ^<tag>: matches at position i
TagAt(s, i, tag) == AtLineStart(s, i) /\ i + 1 <= Len(s) /\ s[i] = tag /\ s[i + 1] = ":"
TagStarts(s, tag) == {i \in 1..Len(s) : TagAt(s, i, tag)}

\* cleanedAbc.match(/^T:\s*(.*)$/m): the leftmost match and its group 1
TitleMatch(s) ==
    IF TagStarts(s, "T") = {} THEN [found |-> FALSE, group1 |-> <<>>]
    ELSE LET i == Min(TagStarts(s, "T"))
             j == SkipSpace(s, i + 2)
             k == SkipLine(s, j)
         IN  [found |-> TRUE, group1 |-> SubSeq(s, j, k - 1)]

\* cleanedAbc.match(/^X:\s*1$/m)
IndexMatch(s) ==
    \E i \in TagStarts(s, "X") :
        \E j \in (i + 2)..SkipSpace(s, i + 2) :
            j <= Len(s) /\ s[j] = "1" /\ AtLineEnd(s, j + 1)

\* cleanedAbc.match(/^K:\s*.*\n/m), and the same for M: and Q:
HeaderMatch(s, tag) ==
    \E i \in TagStarts(s, tag) :
        \E j \in (i + 2)..SkipSpace(s, i + 2) :
            \E k \in j..SkipLine(s, j) : k <= Len(s) /\ s[k] = "\n"

\* cleanedAbc.replace(/(^X:.*)/m, "$1\n<line>"): after the leftmost X: line
InsertAfterIndex(s, line) ==
    IF TagStarts(s, "X") = {} THEN s
    ELSE LET i == Min(TagStarts(s, "X"))
             e == SkipLine(s, i + 2)
         IN  SubSeq(s, 1, e - 1) \o <<"\n">> \o line \o From(s, e)

\* cleanedAbc.match(/\|/) || cleanedAbc.match(/[a-gA-G]/)
HasContent(s) == \E i \in 1..Len(s) : s[i] = "|" \/ s[i] \in PitchLetters

\* the title and the text after the title step
TitleStep(cleanedAbc) ==
    LET titleMatch == TitleMatch(cleanedAbc)
    IN  IF titleMatch.found /\ titleMatch.group1 # <<>>
        THEN [title |-> titleMatch.group1, abcNotation |-> cleanedAbc]
        ELSE [title |-> DefaultTitle,
              abcNotation |-> DefaultTitleLine \o <<"\n">> \o cleanedAbc]

IndexStep(cleanedAbc) ==
    IF ~IndexMatch(cleanedAbc) THEN IndexLine \o <<"\n">> \o cleanedAbc ELSE cleanedAbc

KeyStep(cleanedAbc) ==
    IF ~HeaderMatch(cleanedAbc, "K") THEN InsertAfterIndex(cleanedAbc, DefaultKeyLine)
    ELSE cleanedAbc

MeterStep(cleanedAbc) ==
    IF ~HeaderMatch(cleanedAbc, "M") THEN InsertAfterIndex(cleanedAbc, DefaultMeterLine)
    ELSE cleanedAbc

TempoStep(cleanedAbc) ==
    IF ~HeaderMatch(cleanedAbc, "Q") THEN InsertAfterIndex(cleanedAbc, DefaultTempoLine)
    ELSE cleanedAbc

ContentStep(cleanedAbc) ==
    IF ~HasContent(cleanedAbc) THEN cleanedAbc \o Placeholder ELSE cleanedAbc

Clean(abcText) == Trim(StripFences(abcText))

parseAbcResponse(abcText) ==
    LET titled == TitleStep(Clean(abcText))
    IN  [title |-> titled.title,
         abcNotation |->
             ContentStep(TempoStep(MeterStep(KeyStep(IndexStep(titled.abcNotation)))))]

\* the lines raw texts are drawn from
LineChoices == {
    <<>>,
    <<"T", ":">>,
    <<"T", ":", " ", "H", "i">>,
    <<"T", ":", "J", "o">>,
    <<"T", ":", "U+000C", "H", "o">>,
    <<"X", ":", "1">>,
    <<"X", ":", "2">>,
    <<"X", ":">>,
    <<"1">>,
    <<"K", ":", "H", "P">>,
    <<"M", ":", "3">>,
    <<"Q", ":", "9", "0">>,
    <<"z">>,
    <<"c", "|">>,
    <<Backquote, Backquote, Backquote, "a", "b", "c">>,
    <<Backquote, Backquote, Backquote>> }

RECURSIVE JoinLines(_)
JoinLines(ls) ==
    IF ls = <<>> THEN <<>>
    ELSE IF Len(ls) = 1 THEN ls[1]
    ELSE ls[1] \o <<"\n">> \o JoinLines(Tail(ls))

RawTexts == {JoinLines(ls) : ls \in UNION {[1..n -> LineChoices] : n \in 0..MaxLines}}

ParseStart == raw \in RawTexts /\ pass = 0 /\ first = NoResult /\ second = NoResult

DisplayIdle ==
    /\ abcjsLoaded = TRUE /\ title = "Song" /\ clientWidth = StaffMargin
    /\ currentStaffWidth = 0 /\ nextStaffWidth = 0
    /\ renderError = NoError /\ nextRenderError = NoError
    /\ visualRef = [current |-> TRUE, html |-> 0] /\ audioRef = 0
    /\ layoutDone = FALSE /\ effectPending = TRUE
    /\ runs = <<>> /\ exports = NoExports /\ output = NoOutput

\* generateMusic hands the model's text to parseAbcResponse
Parse ==
    /\ pass = 0
    /\ first' = parseAbcResponse(raw)
    /\ pass' = 1
    /\ UNCHANGED <<raw, second>>
    /\ UNCHANGED <<displayVars, appVars>>

\* the returned notation is normalised once more
Reparse ==
    /\ pass = 1
    /\ second' = parseAbcResponse(first.abcNotation)
    /\ pass' = 2
    /\ UNCHANGED <<raw, first>>
    /\ UNCHANGED <<displayVars, appVars>>

ParseNext ==
    \/ Parse
    \/ Reparse

----------------------------------------------------------------------------
(* App, PromptForm and generateMusic *)

\* handleGenerate calls that reach generateMusic
MaxRequests == 2

\* the prompts the textarea can hold; the first is the one App starts with
DefaultPrompt == <<"a">>
Prompts == { <<>>, <<" ">>, <<"a">>, <<"b", " ">> }

NoAppError == [kind |-> "null", detail |-> ""]
\* 'Please enter a prompt.'
PromptError == [kind |-> "prompt", detail |-> "Please enter a prompt."]
\* `Failed to generate music. ${e.message || 'Please try again.'}`
FailureMessage(message) ==
    [kind |-> "failed", detail |-> IF message # "" THEN message ELSE "Please try again."]

\* the texts the model can answer with, the empty text among them
ModelTexts == { <<>>,
                <<" ">>,
                <<"z">>,
                JoinLines(<< <<"X", ":", "1">>, <<"T", ":", "J", "o">>,
                             <<"K", ":", "H", "P">>, <<"c", "|">> >>) }
NoErr == [message |-> "", str |-> ""]
\* how ai.models.generateContent settles: it rejects, or it resolves to a
\* response whose text is absent or is a string
ModelResponses ==
    {[kind |-> "reject", text |-> <<>>, err |-> e] : e \in Errs}
    \cup {[kind |-> "absent", text |-> <<>>, err |-> NoErr]}
    \cup {[kind |-> "text", text |-> t, err |-> NoErr] : t \in ModelTexts}
NoResponse == [kind |-> "none", text |-> <<>>, err |-> NoErr]

\* a variant that tests only for an absent text
TextMissingAbsentOnly(resp) == resp.kind = "absent"

\* !musicText
TextMissing(resp) == resp.kind = "absent" \/ resp.text = <<>>

\* generateMusic after its single await: what it throws or returns, and whether
\* it called parseAbcResponse
generateMusic(resp) ==
    IF resp.kind = "reject"
    THEN [ok |-> FALSE, message |-> resp.err.message, parsed |-> FALSE, music |-> NoResult]
    ELSE IF TextMissing(resp)
    THEN [ok |-> FALSE, message |-> "Music generation failed to return any text.",
          parsed |-> FALSE, music |-> NoResult]
    ELSE [ok |-> TRUE, message |-> "", parsed |-> TRUE, music |-> parseAbcResponse(resp.text)]

\* a variant of the button that is never disabled
ButtonAlwaysEnabled == TRUE

\* the submit button: disabled={isLoading}
ButtonEnabled == ~isLoading
\* the textarea: disabled={isLoading}
TextareaEnabled == ~isLoading

\* the state of the committed render
Committed == [isLoading |-> isLoading, generatedMusic |-> generatedMusic, error |-> error]
NoAppState == [isLoading |-> FALSE, generatedMusic |-> NoResult, error |-> NoAppError]
\* generatedMusic && !isLoading: MusicDisplay is rendered
Mounted(st) == st.generatedMusic # NoResult /\ ~st.isLoading

\* the state and refs of MusicDisplay
instanceVars == <<currentStaffWidth, nextStaffWidth, renderError, nextRenderError,
                  visualRef, audioRef, layoutDone, effectPending, runs>>

\* React renders and commits the App state q. A MusicDisplay that stays mounted
\* with the same document keeps its state; one that is mounted by this render
\* starts as a new instance, and the state of one that is unmounted is gone
Render(q) ==
    /\ queued' = q
    /\ isLoading' = q.isLoading
    /\ generatedMusic' = q.generatedMusic
    /\ error' = q.error
    /\ IF Mounted(Committed) /\ Mounted(q) /\ q.generatedMusic = generatedMusic
       THEN UNCHANGED instanceVars
       ELSE /\ currentStaffWidth' = 0
            /\ nextStaffWidth' = 0
            /\ renderError' = NoError
            /\ nextRenderError' = NoError
            /\ visualRef' = [current |-> TRUE, html |-> 0]
            /\ audioRef' = 0
            /\ layoutDone' = FALSE
            /\ effectPending' = TRUE
            /\ runs' = <<>>

NewRequest(p) ==
    [prompt |-> p, pc |-> "calling", calls |-> 1, parsed |-> FALSE,
     response |-> NoResponse, music |-> NoResult]

\* handleGenerate up to its await; the state it sets is rendered before the
\* next event is dispatched
handleGenerate ==
    /\ Trim(prompt) # <<>> => Len(requests) < MaxRequests
    /\ IF Trim(prompt) = <<>>
       THEN /\ Render([queued EXCEPT !.error = PromptError])
            /\ requests' = requests
       ELSE /\ Render([queued EXCEPT !.isLoading = TRUE, !.error = NoAppError,
                                     !.generatedMusic = NoResult])
            /\ requests' = Append(requests, NewRequest(prompt))
    /\ UNCHANGED prompt

AppIdle ==
    /\ prompt = DefaultPrompt /\ isLoading = FALSE /\ generatedMusic = NoResult
    /\ error = NoAppError /\ queued = NoAppState /\ requests = <<>>

\* a complete answer of the model, and the document the mounted MusicDisplay
\* shows for it
ShownText ==
    JoinLines(<< <<"X", ":", "1">>, <<"T", ":", "J">>, <<"Q", ":", "9">>,
                 <<"M", ":", "3">>, <<"K", ":", "C">>, <<"c">> >>)
ShownMusic == parseAbcResponse(ShownText)
\* App after one generation has resolved and been rendered
AppShowing ==
    /\ prompt = DefaultPrompt /\ isLoading = FALSE /\ generatedMusic = ShownMusic
    /\ error = NoAppError
    /\ queued = [isLoading |-> FALSE, generatedMusic |-> ShownMusic, error |-> NoAppError]
    /\ requests = << [prompt |-> DefaultPrompt, pc |-> "resolved", calls |-> 1,
                      parsed |-> TRUE,
                      response |-> [kind |-> "text", text |-> ShownText, err |-> NoErr],
                      music |-> ShownMusic] >>

\* onChange of the textarea
EditPrompt(p) ==
    /\ TextareaEnabled
    /\ p # prompt
    /\ prompt' = p
    /\ UNCHANGED <<isLoading, generatedMusic, error, queued, requests>>
    /\ UNCHANGED <<abcjsLoaded, title, clientWidth, currentStaffWidth, nextStaffWidth,
                   renderError, nextRenderError, visualRef, audioRef, layoutDone,
                   effectPending, runs, exports, output>>
    /\ UNCHANGED parseVars

\* onClick of the submit button
SubmitButton ==
    /\ ButtonEnabled
    /\ handleGenerate
    /\ UNCHANGED <<abcjsLoaded, title, clientWidth, exports, output>>
    /\ UNCHANGED parseVars

\* handleKeyDown with Enter and no Shift
EnterKey ==
    /\ TextareaEnabled
    /\ ~isLoading
    /\ handleGenerate
    /\ UNCHANGED <<abcjsLoaded, title, clientWidth, exports, output>>
    /\ UNCHANGED parseVars

\* a variant without the finally block on the failure path
SettledNoFinally(q, out) ==
    IF out.ok
    THEN [q EXCEPT !.generatedMusic = out.music, !.isLoading = FALSE]
    ELSE [q EXCEPT !.error = FailureMessage(out.message)]

\* the state set after the await: setGeneratedMusic(result) in the try, setError
\* in the catch, setIsLoading(false) in the finally
Settled(q, out) ==
    IF out.ok
    THEN [q EXCEPT !.generatedMusic = out.music, !.isLoading = FALSE]
    ELSE [q EXCEPT !.error = FailureMessage(out.message), !.isLoading = FALSE]

\* the await in handleGenerate settles for request i: try, catch and finally
Settle(i, resp) ==
    /\ i \in 1..Len(requests)
    /\ requests[i].pc = "calling"
    /\ LET out == generateMusic(resp)
       IN  /\ requests' = [requests EXCEPT ![i] =
                             [@ EXCEPT !.pc = IF out.ok THEN "resolved" ELSE "rejected",
                                       !.parsed = out.parsed,
                                       !.response = resp,
                                       !.music = out.music]]
           /\ queued' = Settled(queued, out)
    /\ UNCHANGED <<prompt, isLoading, generatedMusic, error>>
    /\ UNCHANGED displayVars
    /\ UNCHANGED parseVars

\* React renders the state queued outside an event handler
AppCommit ==
    /\ queued # Committed
    /\ Render(queued)
    /\ UNCHANGED <<prompt, requests>>
    /\ UNCHANGED <<abcjsLoaded, title, clientWidth, exports, output>>
    /\ UNCHANGED parseVars

AppNext ==
    \/ \E p \in Prompts : EditPrompt(p)
    \/ SubmitButton
    \/ EnterKey
    \/ \E i \in 1..MaxRequests, resp \in ModelResponses : Settle(i, resp)
    \/ AppCommit
    \/ LayoutEffect
    \/ Commit
    \/ EffectSkip
    \/ \E v \in VisualResults, b \in Constructions, err \in Errs : EffectRun(v, b, err)
    \/ \E r \in 1..MaxRuns, ok \in BOOLEAN, err \in Errs : InitSettle(r, ok, err)
    \/ \E r \in 1..MaxRuns, o \in PrimeOutcomes, err \in Errs : PrimeSettle(r, o, err)

\* App before the first generation; the MusicDisplay it will mount finds ABCJS
\* loaded or not, in a container StaffMargin wide in a window that is not
\* resized: the staff width stays 0 and no width is ever queued
AppInit ==
    /\ AppIdle
    /\ abcjsLoaded \in BOOLEAN /\ title = "Song" /\ clientWidth = StaffMargin
    /\ currentStaffWidth = 0 /\ nextStaffWidth = 0
    /\ renderError = NoError /\ nextRenderError = NoError
    /\ visualRef = [current |-> TRUE, html |-> 0] /\ audioRef = 0
    /\ layoutDone = FALSE /\ effectPending = TRUE
    /\ runs = <<>> /\ exports = NoExports /\ output = NoOutput
    /\ ParseIdle
AppSpec == AppInit /\ [][AppNext]_vars

\* every pending model call settles, and React renders what is queued
AppFairSpec ==
    /\ AppSpec
    /\ WF_vars(\E i \in 1..MaxRequests, resp \in ModelResponses : Settle(i, resp))
    /\ WF_vars(AppCommit)

ParseInit == ParseStart /\ DisplayIdle /\ AppIdle
ParseSpec == ParseInit /\ [][ParseNext]_vars

Init == DisplayInit /\ ParseIdle /\ AppShowing
Spec == Init /\ [][Next]_vars

----------------------------------------------------------------------------
(* Properties of MusicDisplay, checked under Spec *)

LastRun == runs[Len(runs)]
OpenContexts == {r \in 1..Len(runs) : runs[r].audioContext = "open"}

\* C1, in every state: when the newest run ended in AudioError and an audio
\* error is shown, the node below the buttons still holds the score that run drew.
C1_ScoreShown ==
    (Len(runs) > 0 /\ LastRun.pc = "audioError" /\ renderError.kind = "audio")
        => (visualRef.html = Len(runs) /\ LastRun.visualObjs = "ok")

\* C1, the render that shows an audio error: what the node holds is what it held
\* before.
C1_ErrorRenderStep ==
    (renderError' # renderError /\ renderError'.kind = "audio")
        => visualRef'.html = visualRef.html

\* C1: when the visual render succeeded and init or prime then rejects, the
\* controller ends in AudioError and the rendered score stays displayed: the
\* node that showed it is still shown, now with the message below the score,
\* and its score is the one the run drew before the failure.
C1_ScoreStaysAfterAudioError == [](C1_ScoreShown) /\ [][C1_ErrorRenderStep]_vars

\* init or prime of the newest run rejected, the audio error is rendered and the
\* score of that run is still in the node
C1_Witness ==
    /\ Len(runs) > 0
    /\ LastRun.pc = "audioError" /\ renderError.kind = "audio"
    /\ nextRenderError = renderError /\ ~effectPending
    /\ visualRef.html = Len(runs) /\ ~visualRef.current

\* C2: a pipeline run whose renderAbc returned nothing or an empty list ends in
\* VisualError and constructs no synthesizer, creates no AudioContext and never
\* reaches init or prime.
C2_VisualFailurePrecludesAudio ==
    \A r \in 1..Len(runs) :
        runs[r].visualObjs \in {"absent", "empty"}
            => /\ runs[r].pc = "visualError"
               /\ runs[r].synth = FALSE
               /\ runs[r].audioContext = "none"
               /\ runs[r].closeCalls = 0
               /\ audioRef # r

\* a run got an empty list, its message is displayed, and another run did start audio
C2_Witness ==
    /\ Len(runs) = 2
    /\ runs[1].synth /\ runs[1].pc = "ready"
    /\ runs[2].visualObjs = "empty" /\ runs[2].pc = "visualError"
    /\ renderError = VisualErrorMessage

\* C3: the audio context of the previous pipeline run is closed before the next
\* run opens a new one, so at most one audio context created by the pipeline is
\* open at any time.
C3_AtMostOneOpenContext == Cardinality(OpenContexts) <= 1

\* C4, in every settled state: the newest run was rendered with staffwidth equal
\* to the container width minus the 40 margin.
C4_SettledWidth ==
    (layoutDone /\ ~effectPending /\ nextStaffWidth = currentStaffWidth
        /\ visualRef.current /\ Len(runs) > 0)
        => LastRun.staffwidth = clientWidth - 40

\* C4, the step that starts a run while the newest run is Ready: the width has
\* changed, the controls and the old score are cleared, renderAbc gets the new
\* width, and a successful render goes on to init (unless a constructor throws).
C4_RestartStep ==
    (Len(runs) > 0 /\ LastRun.pc = "ready" /\ Len(runs') = Len(runs) + 1)
        => LET n == Len(runs')
           IN  /\ runs'[n].staffwidth = currentStaffWidth
               /\ runs'[n].staffwidth # LastRun.staffwidth
               /\ audioRef' = 0
               /\ visualRef'.html \in {0, n}
               /\ runs'[n].visualObjs = "ok"
                    => /\ visualRef'.html = n
                       /\ runs'[n].pc \in {"init", "threw"}
                       /\ runs'[n].pc = "init"
                            => (runs'[n].synth /\ runs'[n].audioContext = "open")
               /\ SubSeq(runs', 1, Len(runs)) = runs

\* C4: a width change after Ready restarts the pipeline from the beginning: score
\* and controls are cleared, renderAbc is called with staffwidth = container
\* width - 40, and the run goes on to audio priming and controls.
C4_ResizeRestartsPipeline == [](C4_SettledWidth) /\ [][C4_RestartStep]_vars

\* the first run is Ready and a second run has just started with the new width:
\* the controls are cleared (so the second run began after the first showed
\* them), the new score is drawn and init is pending
C4_Witness ==
    /\ Len(runs) = 2
    /\ runs[1].pc = "ready" /\ runs[2].pc = "init"
    /\ runs[2].staffwidth = clientWidth - 40
    /\ runs[2].staffwidth # runs[1].staffwidth
    /\ audioRef = 0 /\ visualRef.html = 2
    /\ ~effectPending /\ nextStaffWidth = currentStaffWidth

\* C5: handleDownloadMidi called while the pipeline is not Ready produces no
\* download, and every MIDI download is named title-or-untitled followed by .mid.
\* (A run that is Ready stays Ready, so a MIDI file downloaded while no run is
\* Ready comes from a click made when the pipeline was not Ready.)
C5_ExportNeedsReady ==
    output.download.ext = ".mid" =>
        /\ \E r \in 1..Len(runs) : runs[r].pc = "ready"
        /\ output.download.base = (IF title = "" THEN "untitled" ELSE title)

\* pc of run r before a step; "render" for a run the step creates
PcBefore(r) == IF r <= Len(runs) THEN runs[r].pc ELSE "render"

\* C12, in every state: a run is in init, prime or ready only after its renderAbc
\* returned a tune, and the controls shown by a run mean that run is Ready.
C12_ControlsNeedPrime ==
    \A r \in 1..Len(runs) :
        /\ runs[r].pc \in {"init", "prime", "ready"}
               => (runs[r].visualObjs = "ok" /\ runs[r].synth
                   /\ runs[r].audioContext = "open")
        /\ audioRef = r => runs[r].pc = "ready"

\* C12, every step: init starts in the step that rendered the score, prime
\* starts only when init resolved, and the controls are rendered exactly in the
\* step in which prime resolves.
C12_OrderStep ==
    \A r \in 1..Len(runs') :
        /\ (runs'[r].pc = "init" /\ PcBefore(r) # "init")
               => (PcBefore(r) = "render" /\ visualRef'.html = r)
        /\ (runs'[r].pc = "prime" /\ PcBefore(r) # "prime") => PcBefore(r) = "init"
        /\ (runs'[r].pc = "ready" /\ PcBefore(r) # "ready")
               => (PcBefore(r) = "prime" /\ audioRef' = r)
        /\ (audioRef' = r /\ audioRef # r)
               => (PcBefore(r) = "prime" /\ runs'[r].pc = "ready")

\* C12: within every pipeline run the order is visual render, init, prime,
\* controls; the controls are rendered only after that run's render returned a
\* non-empty result and its init and prime both resolved.
C12_PipelineOrder == [](C12_ControlsNeedPrime) /\ [][C12_OrderStep]_vars

\* a run went through render, init and prime and shows its controls
C12_Witness ==
    /\ Len(runs) > 0
    /\ LastRun.pc = "ready" /\ LastRun.visualObjs = "ok"
    /\ audioRef = Len(runs) /\ visualRef.html = Len(runs)

\* runs inside their init / prime phase, each with its open audio context
Priming == {r \in 1..Len(runs) : runs[r].pc \in {"init", "prime"}
                                   /\ runs[r].audioContext = "open"}

\* C13: at no time are two pipeline runs inside their init / prime phase with
\* two open audio contexts; a width change during priming starts no second
\* concurrent priming.
C13_NoConcurrentPriming == Cardinality(Priming) <= 1

\* C17: a resize to another width while an error is displayed queues the new
\* staff width (container width - 40), which re-runs the pipeline and clears
\* the error.
C17_ResizeStep ==
    (renderError # NoError /\ clientWidth' # clientWidth)
        => nextStaffWidth' = clientWidth' - StaffMargin
C17_ResizeClearsError == [][C17_ResizeStep]_vars

\* C18: when a run that has been superseded by a newer run settles, it neither
\* renders controls nor sets the error message.
C18_StaleStep ==
    \A r \in 1..Len(runs) :
        (r < Len(runs) /\ runs'[r] # runs[r])
            => (audioRef' = audioRef /\ nextRenderError' = nextRenderError)
C18_StaleRunSilent == [][C18_StaleStep]_vars

\* nothing queued and no effect pending
DisplaySettled ==
    /\ layoutDone /\ ~effectPending
    /\ nextStaffWidth = currentStaffWidth /\ nextRenderError = renderError
\* the texts the failures of the model carry
FailureTexts == {"blocked", "NotAllowedError"}

\* C19: a run whose init or prime rejected has its audio context closed by one
\* close() call and has rendered no controls, and once the newest run's failure
\* is rendered the displayed message is the audio error with the failure text.
C19_AudioFailureReleases ==
    \A r \in 1..Len(runs) :
        runs[r].pc = "audioError"
            => /\ runs[r].audioContext = "closed"
               /\ runs[r].closeCalls = 1
               /\ audioRef # r
               /\ (r = Len(runs) /\ DisplaySettled)
                      => (renderError.kind = "audio" /\ renderError.text \in FailureTexts)

\* the newest run's init or prime rejected without a message and the error is shown
C19_Witness ==
    /\ Len(runs) > 0
    /\ LastRun.pc = "audioError" /\ LastRun.closeCalls = 1
    /\ LastRun.audioContext = "closed"
    /\ DisplaySettled
    /\ renderError = [kind |-> "audio", text |-> "NotAllowedError"]

----------------------------------------------------------------------------
(* Properties of parseAbcResponse, checked under ParseSpec *)

\* the lines of a text, split at its newlines
RECURSIVE LinesOf(_)
LinesOf(s) ==
    IF \A i \in 1..Len(s) : s[i] # "\n" THEN <<s>>
    ELSE LET k == Min({i \in 1..Len(s) : s[i] = "\n"})
         IN  <<SubSeq(s, 1, k - 1)>> \o LinesOf(SubSeq(s, k + 1, Len(s)))

\* a header line of the given kind, e.g. T:...
IsLineOf(l, tag) == Len(l) >= 2 /\ l[1] = tag /\ l[2] = ":"
\* what follows the two-character prefix of a header line, blanks around it dropped
ValueOf(l) == Trim(SubSeq(l, 3, Len(l)))
\* the positions of the lines of one kind
LinesOfKind(s, tag) == {i \in 1..Len(LinesOf(s)) : IsLineOf(LinesOf(s)[i], tag)}
CountOfKind(s, tag) == Cardinality(LinesOfKind(s, tag))
\* an index line whose value is 1
HasIndexOne(s) ==
    \E i \in LinesOfKind(s, "X") : ValueOf(LinesOf(s)[i]) = <<"1">>
\* a bar separator or a pitch letter
HasBarOrPitch(s) == \E i \in 1..Len(s) : s[i] = "|" \/ s[i] \in PitchLetters
EndsWith(s, p) == Len(s) >= Len(p) /\ SubSeq(s, Len(s) - Len(p) + 1, Len(s)) = p

\* C6: for every raw text parseAbcResponse returns a non-empty title and a body
\* with at least one index line X:1, one title line, one key line, one meter line,
\* one tempo line, and a bar separator or a pitch letter.
C6_CompleteDocument ==
    pass >= 1 =>
        /\ first.title # <<>>
        /\ HasIndexOne(first.abcNotation)
        /\ \A tag \in {"T", "K", "M", "Q"} : CountOfKind(first.abcNotation, tag) >= 1
        /\ HasBarOrPitch(first.abcNotation)

\* C7: for every raw text the returned body has exactly one index line, whose
\* value is 1, and exactly one title line.
C7_ExactlyOneIndexAndTitle ==
    pass >= 1 =>
        /\ CountOfKind(first.abcNotation, "X") = 1
        /\ HasIndexOne(first.abcNotation)
        /\ CountOfKind(first.abcNotation, "T") = 1

\* C8: applying parseAbcResponse to its own output returns the same title and
\* adds no index, title, key, meter or tempo line and no placeholder bar.
C8_Idempotent ==
    pass = 2 =>
        /\ second.title = first.title
        /\ \A tag \in {"X", "T", "K", "M", "Q"} :
               CountOfKind(second.abcNotation, tag) = CountOfKind(first.abcNotation, tag)
        /\ Len(LinesOf(second.abcNotation)) <= Len(LinesOf(first.abcNotation))

\* C9: for every raw text with no bar separator and no pitch letter, the empty
\* text included, the returned body ends with the placeholder bar.
C9_PlaceholderAppended ==
    (pass >= 1 /\ ~HasBarOrPitch(raw)) => EndsWith(first.abcNotation, Placeholder)

\* the title lines of the cleaned input, and whether a title line was added to them
InputTitleLines == LinesOfKind(Clean(raw), "T")
FirstTitleLine == LinesOf(Clean(raw))[Min(InputTitleLines)]
TitleInjected ==
    /\ CountOfKind(first.abcNotation, "T") = Cardinality(InputTitleLines) + 1
    /\ \E i \in LinesOfKind(first.abcNotation, "T") :
           LinesOf(first.abcNotation)[i] = DefaultTitleLine
\* a line without its leading blanks
DropLeading(l) == SubSeq(l, SkipSpace(l, 1), Len(l))

\* C10: a first title line with text gives exactly that text as title
\* and no default title line; the default line is prepended, and the title set to
\* the default, only if the input has no title line.
C10_TitleAsStated ==
    pass >= 1 =>
        /\ (InputTitleLines # {} /\ ValueOf(FirstTitleLine) # <<>>)
               => (first.title = DropLeading(SubSeq(FirstTitleLine, 3, Len(FirstTitleLine)))
                   /\ ~TitleInjected)
        /\ TitleInjected => InputTitleLines = {}
        /\ InputTitleLines = {} => (TitleInjected /\ first.title = DefaultTitle)

\* the positions of the index lines with value 1
IndexOneLines(s) == {i \in LinesOfKind(s, "X") : ValueOf(LinesOf(s)[i]) = <<"1">>}

\* C15: for every raw text the index line X:1 is the first structural line of
\* the returned body: no title, key, meter or tempo line precedes it.
C15_IndexFirst ==
    pass >= 1 =>
        /\ IndexOneLines(first.abcNotation) # {}
        /\ \A tag \in {"T", "K", "M", "Q"} :
               \A j \in LinesOfKind(first.abcNotation, tag) :
                   j > Min(IndexOneLines(first.abcNotation))

\* the default line of a kind
DefaultLine(tag) ==
    IF tag = "K" THEN DefaultKeyLine
    ELSE IF tag = "M" THEN DefaultMeterLine ELSE DefaultTempoLine
\* line j of a text is one of the default key, meter and tempo lines
IsDefaultLine(s, j) == LinesOf(s)[j] \in {DefaultKeyLine, DefaultMeterLine, DefaultTempoLine}

\* C16: a default key, meter or tempo line is added only when the cleaned input
\* has no line of that kind, and then directly after the index line (only other
\* default lines between them); when the input has a line of that kind, at any
\* position, the last line included, none is added.
C16_DefaultsOnlyWhenMissing ==
    pass >= 1 =>
        \A tag \in {"K", "M", "Q"} :
            IF LinesOfKind(Clean(raw), tag) # {}
            THEN CountOfKind(first.abcNotation, tag) = CountOfKind(Clean(raw), tag)
            ELSE /\ CountOfKind(first.abcNotation, tag) = 1
                 /\ LinesOfKind(first.abcNotation, "X") # {}
                 /\ \A j \in LinesOfKind(first.abcNotation, tag) :
                        /\ LinesOf(first.abcNotation)[j] = DefaultLine(tag)
                        /\ j > Min(LinesOfKind(first.abcNotation, "X"))
                        /\ \A k \in (Min(LinesOfKind(first.abcNotation, "X")) + 1)..j :
                               IsDefaultLine(first.abcNotation, k)

----------------------------------------------------------------------------
(* Properties of App and PromptForm, checked under AppSpec and AppFairSpec *)

LastRequest == requests[Len(requests)]
InFlight == {i \in 1..Len(requests) : requests[i].pc = "calling"}

\* the model call rejected, or resolved with an absent or empty text
FailedResponse(resp) ==
    resp.kind \in {"reject", "absent"} \/ (resp.kind = "text" /\ resp.text = <<>>)
\* the failure message App shows for such a response
ExpectedFailure(resp) ==
    [kind |-> "failed",
     detail |-> IF resp.kind = "reject"
                THEN (IF resp.err.message = "" THEN "Please try again." ELSE resp.err.message)
                ELSE "Music generation failed to return any text."]

\* C11, the settling step: a request whose model call rejects or returns absent or
\* empty text is rejected after its one call and without the normalizer, and the
\* state handleGenerate leaves to be rendered is the failure message, no
\* document and isLoading false.
C11_SettleStep ==
    \A i \in 1..Len(requests) :
        (requests[i].pc = "calling" /\ requests'[i].pc # "calling"
            /\ FailedResponse(requests'[i].response))
        => /\ requests'[i].pc = "rejected"
           /\ ~requests'[i].parsed
           /\ requests'[i].calls = 1
           /\ Len(requests') = Len(requests)
           /\ queued' = [isLoading |-> FALSE, generatedMusic |-> NoResult,
                         error |-> ExpectedFailure(requests'[i].response)]

\* C11, once rendered: after the newest request failed, no document is set, no
\* MusicDisplay is mounted, isLoading is false and an error is shown.
C11_FailureShown ==
    (Len(requests) > 0 /\ LastRequest.pc = "rejected" /\ queued = Committed)
        => /\ generatedMusic = NoResult
           /\ ~Mounted(Committed)
           /\ ~isLoading
           /\ error.kind \in {"failed", "prompt"}
           /\ ~LastRequest.parsed /\ LastRequest.calls = 1

\* C11: if the model call rejects or returns absent or empty text, generateMusic
\* fails without the normalizer and without a second call, and once handleGenerate
\* has settled App shows the failure message, generatedMusic = null and
\* isLoading = false.
C11_FailedCallShowsFailure == [](C11_FailureShown) /\ [][C11_SettleStep]_vars

\* the model answered with the empty text and the failure is on screen
C11_Witness ==
    /\ Len(requests) > 0
    /\ LastRequest.pc = "rejected"
    /\ LastRequest.response.kind = "text" /\ LastRequest.response.text = <<>>
    /\ queued = Committed
    /\ error = [kind |-> "failed", detail |-> "Music generation failed to return any text."]
    /\ generatedMusic = NoResult /\ ~isLoading

\* C14, safety: with a generation failure or a MusicDisplay error on screen,
\* isLoading is false, button and textarea are enabled, and a click with a
\* non-empty prompt starts a request.
C14_AfterFailure ==
    ((error.kind = "failed" \/ renderError # NoError) /\ queued = Committed)
        => /\ ~isLoading
           /\ ButtonEnabled /\ TextareaEnabled
           /\ (Trim(prompt) # <<>> /\ Len(requests) < MaxRequests)
                  => ENABLED SubmitButton

\* C14: every failure path leaves the system re-enterable, and every started
\* generation request is eventually followed by isLoading = false.
C14_Reenterable == [](C14_AfterFailure) /\ ((InFlight # {}) ~> ~isLoading)

\* a request failed, and a second one was started after it
C14_Witness ==
    /\ Len(requests) = 2
    /\ requests[1].pc = "rejected"
    /\ requests[2].pc = "calling"
    /\ isLoading

\* C20: through the PromptForm at most one generation request is in flight: while
\* one is, isLoading is true and it is the newest; a document that is set is the
\* result of the newest request.
C20_SingleFlight ==
    /\ Cardinality(InFlight) <= 1
    /\ InFlight # {} => (InFlight = {Len(requests)} /\ isLoading)
    /\ generatedMusic # NoResult
           => (LastRequest.pc = "resolved" /\ generatedMusic = LastRequest.music)

\* the second request is in flight after the first has resolved
C20_Witness ==
    /\ Len(requests) = 2
    /\ requests[1].pc = "resolved"
    /\ InFlight = {2}
    /\ isLoading /\ generatedMusic = NoResult

====
